---- MODULE Spec2Model ----
(***************************************************************************)
(* Model of the drone viewer (src/app.py): the SRT telemetry parser, the   *)
(* EXIF GPS extractor, the map builder and the upload/clear/index/map      *)
(* request handlers over the upload folder.                                *)
(*                                                                         *)
(* Text is a sequence of one-character strings.  A float is an integer     *)
(* count of 1/Unit (coordinates, altitudes) or of 1/1000 (seconds); the    *)
(* map centre and the EXIF rationals are unreduced fractions.              *)
(***************************************************************************)
EXTENDS Integers, Sequences, FiniteSets, TLC

VARIABLES pc, srt_lines, gps_data, map_html,
          dms_in, ref_in, decimal,
          images_arg, video_arg,
          root_files, img_dir, current_map_data, last_req, last_scan

vars == <<pc, srt_lines, gps_data, map_html, dms_in, ref_in, decimal,
          images_arg, video_arg,
          root_files, img_dir, current_map_data, last_req, last_scan>>

\* re.search found nothing (a capture is never empty)
NoMatch == <<>>

\* ------------------------------------------------------------------ bounds
MaxLines == 9
MaxBusy == 3
MaxTrack == 61
MaxImages == 2
MaxDen == 2
MaxBatch == 2

\* ------------------------------------------------------- program constants
Lookahead == 8
MarkerEvery == 30
DefaultZoom == 12
DataZoom == 15

\* ------------------------------------------------------------------ floats
\* A float is an integer count of 1/Unit: Unit is a multiple of 100 (two
\* decimal places of telemetry text), of 3600 (EXIF seconds) and of every
\* EXIF denominator 1..MaxDen, so each value of the model is exact.
RECURSIVE Factorial(_)
Factorial(n) == IF n <= 1 THEN 1 ELSE n * Factorial(n - 1)

Unit == 3600 * Factorial(MaxDen)

\* center = [43.65, -79.38]
DefaultLat == (4365 * Unit) \div 100
DefaultLon == 0 - ((7938 * Unit) \div 100)

\* ------------------------------------------------------------ text helpers
Digits == <<"0", "1", "2", "3", "4", "5", "6", "7", "8", "9">>

IsDigit(c) == \E d \in 1..10 : Digits[d] = c

DigitVal(c) == (CHOOSE d \in 1..10 : Digits[d] = c) - 1

Min(a, b) == IF a < b THEN a ELSE b

RECURSIVE Pow10(_)
Pow10(n) == IF n = 0 THEN 1 ELSE 10 * Pow10(n - 1)

\* value of a run of decimal digits
RECURSIVE DigitsVal(_)
DigitsVal(s) ==
    IF s = <<>> THEN 0
    ELSE 10 * DigitsVal(SubSeq(s, 1, Len(s) - 1)) + DigitVal(s[Len(s)])

\* length of the longest run of digits of s that starts at position p
RECURSIVE DigitRun(_, _)
DigitRun(s, p) ==
    IF p <= Len(s) /\ IsDigit(s[p]) THEN 1 + DigitRun(s, p + 1) ELSE 0

SignLen(s) == IF Len(s) >= 1 /\ s[1] \in {"+", "-"} THEN 1 ELSE 0

\* the text captured by [+-]?\d+\.?\d* at the start of s, or NoMatch
CoordMatch(s) ==
    LET sg == SignLen(s)
        n1 == DigitRun(s, sg + 1)
        dot == IF sg + n1 + 1 <= Len(s) /\ s[sg + n1 + 1] = "." THEN 1 ELSE 0
        n2 == IF dot = 1 THEN DigitRun(s, sg + n1 + 2) ELSE 0
    IN  IF n1 = 0 THEN NoMatch ELSE SubSeq(s, 1, sg + n1 + dot + n2)

\* the text captured by [+-]?\d+(?:\.\d+)? at the start of s, or NoMatch
AltMatch(s) ==
    LET sg == SignLen(s)
        n1 == DigitRun(s, sg + 1)
        dot == IF sg + n1 + 1 <= Len(s) /\ s[sg + n1 + 1] = "." THEN 1 ELSE 0
        n2 == IF dot = 1 THEN DigitRun(s, sg + n1 + 2) ELSE 0
    IN  IF n1 = 0 THEN NoMatch
        ELSE IF n2 = 0 THEN SubSeq(s, 1, sg + n1)
        ELSE SubSeq(s, 1, sg + n1 + 1 + n2)

\* float() of a text one of the two patterns captured (the texts of the
\* model have at most two fractional digits)
ToFloat(m) ==
    LET sg == SignLen(m)
        n1 == DigitRun(m, sg + 1)
        ip == SubSeq(m, sg + 1, sg + n1)
        fr == IF sg + n1 + 1 < Len(m) THEN SubSeq(m, sg + n1 + 2, Len(m)) ELSE <<>>
        mag == DigitsVal(ip) * Unit + (DigitsVal(fr) * Unit) \div Pow10(Len(fr))
    IN  IF sg = 1 /\ m[1] = "-" THEN 0 - mag ELSE mag

\* ------------------------------------------------ telemetry file contents
\* A line of a telemetry file: marker says whether it contains "-->", ts is
\* its first whitespace-separated token, fields are its "label: text"
\* fields from left to right (intag: the field lies inside a <...> tag).
Fld(l, t) == [label |-> l, text |-> t, intag |-> FALSE]
Hidden(l, t) == [label |-> l, text |-> t, intag |-> TRUE]

Blank == [marker |-> FALSE, ts |-> <<>>, fields |-> <<>>]

\* "HH:MM:SS,mmm" for a time of ms milliseconds
FormatTs(ms) ==
    LET h == ms \div 3600000
        m == (ms \div 60000) % 60
        s == (ms \div 1000) % 60
        f == ms % 1000
        D(k) == Digits[k + 1]
    IN  << D(h \div 10), D(h % 10), ":", D(m \div 10), D(m % 10), ":",
           D(s \div 10), D(s % 10), ",",
           D(f \div 100), D((f \div 10) % 10), D(f % 10) >>

\* first tokens of marker lines: well formed, and malformed ones
TsKinds == << <<>>,
              <<"a", ":", "b", ":", "c">>,
              <<"-", "-", ">">>,
              <<"0", "0", ":", "0", "1">>,
              <<"0", ":", "0", ":", "1", ",", "2", ",", "3">>,
              <<"0", ":", "0", ":", ",", "5">>,
              <<"0", "0", ":", "0", "0", ":", "0", "7">>,
              <<"1", ":", "-", "2", ":", "+", "3", ",", "5">> >>

\* the first token of the marker on line i: its cue starts (i - 1) seconds
\* and 345 ms into the video; malformed, one of TsKinds by position
MarkerTs(i, bad) ==
    IF bad THEN TsKinds[((i - 1) % (Len(TsKinds) - 1)) + 2]
    ELSE FormatTs((i - 1) * 1000 + 345)

N4365 == <<"4", "3", ".", "6", "5">>
N7938 == <<"-", "7", "9", ".", "3", "8">>
N100 == <<"1", "0", ".", "0">>
N25 == <<"2", ".", "5">>
N15 == <<"+", "1", ".", "5">>
N12dot == <<"1", "2", ".">>
NBad == <<"x", "1">>
NDot5 == <<".", "5">>
N7x == <<"7", ".", "x">>

\* coordinate lines; the first is [latitude: A] [longitude: B] [rel_alt: C]
CoordLines ==
    << << Fld("latitude", N4365), Fld("longitude", N7938), Fld("rel_alt", N100) >>,
       << Fld("latitude", N4365), Fld("longitude", N7938),
          Fld("rel_alt", N15), Fld("abs_alt", N25) >>,
       << Fld("abs_alt", N25), Fld("rel_alt", N15),
          Fld("longitude", N7938), Fld("latitude", N4365) >>,
       << Fld("latitude", N12dot), Fld("longitude", N15) >>,
       << Fld("LATITUDE", N4365), Fld("Longitude", N7938),
          Fld("ABS ALT", NBad), Fld("Rel-Alt", N7x) >>,
       << Hidden("latitude", N25), Fld("latitude", NDot5), Fld("latitude", N15),
          Fld("longitude", NBad), Fld("longitude", N25), Fld("altitude", N100) >>,
       << Fld("latitude", N4365), Fld("longitude", N7938),
          Hidden("abs_alt", N100), Fld("absalt", N7x), Fld("rel_alt", N25) >> >>

\* lines that carry no usable coordinate pair
HalfLines ==
    << << Fld("latitude", N4365), Fld("rel_alt", N100) >>,
       << Fld("latitude", NBad), Fld("longitude", N7938) >>,
       << Hidden("latitude", N4365), Fld("longitude", N7938) >>,
       << Fld("longitude", N7938), Fld("abs_alt", N25) >> >>

\* a marker line or a coordinate line
LineOf(kind, i, cv, bad) ==
    IF kind = "marker"
    THEN [marker |-> TRUE, ts |-> MarkerTs(i, bad), fields |-> <<>>]
    ELSE [marker |-> FALSE, ts |-> <<>>, fields |-> CoordLines[cv]]

BusyKinds == {"marker", "coord"}

\* the other lines: blank, or text without a usable coordinate pair
FillerLine(i, filler) ==
    IF filler = "blank" THEN Blank
    ELSE [marker |-> FALSE, ts |-> <<>>, fields |-> HalfLines[(i % Len(HalfLines)) + 1]]

\* ----------------------------------------------------------- parse_srt
\* re.sub(r'<.*?>', '', curr_line)
Clean(fields) == SelectSeq(fields, LAMBDA f : ~f.intag)

\* the label part of the four patterns, under re.IGNORECASE
LatLabels == {"latitude", "LATITUDE", "Latitude"}
LonLabels == {"longitude", "LONGITUDE", "Longitude"}
AbsLabels == {"abs_alt", "abs alt", "abs-alt", "absalt", "ABS ALT", "Abs_Alt"}
RelLabels == {"rel_alt", "rel alt", "rel-alt", "relalt", "REL ALT", "Rel-Alt"}

IsAbs(l) == l \in AbsLabels
IsRel(l) == l \in RelLabels

\* the number part: of the coordinate patterns, or of the altitude patterns
Capture(pattern, text) ==
    IF pattern = "coord" THEN CoordMatch(text) ELSE AltMatch(text)

\* re.search: the capture of the leftmost field the pattern matches, or NoMatch
RECURSIVE Search(_, _, _, _)
Search(clean, labels, pattern, p) ==
    IF p > Len(clean) THEN NoMatch
    ELSE IF clean[p].label \in labels /\ Capture(pattern, clean[p].text) # NoMatch
         THEN Capture(pattern, clean[p].text)
         ELSE Search(clean, labels, pattern, p + 1)

LatSearch(clean) == Search(clean, LatLabels, "coord", 1)
LonSearch(clean) == Search(clean, LonLabels, "coord", 1)
AbsSearch(clean) == Search(clean, AbsLabels, "alt", 1)
RelSearch(clean) == Search(clean, RelLabels, "alt", 1)

\* the altitude of a matched line: abs_alt before rel_alt, 0 without either
PickAltRelFirst(abs_m, rel_m) ==
    IF rel_m # NoMatch THEN ToFloat(rel_m)
    ELSE IF abs_m # NoMatch THEN ToFloat(abs_m)
    ELSE 0

PickAlt(abs_m, rel_m) ==
    IF abs_m # NoMatch THEN ToFloat(abs_m)
    ELSE IF rel_m # NoMatch THEN ToFloat(rel_m)
    ELSE 0

\* lat_m and lon_m
HasCoords(line) ==
    LET clean == Clean(line.fields)
    IN  LatSearch(clean) # NoMatch /\ LonSearch(clean) # NoMatch

\* the lines range(i + 1, min(i + 8, len(lines))) scans, 1-based
ScanRangeShort(i, n) == (i + 1)..Min(i + Lookahead - 2, n)

ScanRange(i, n) == (i + 1)..Min(i + Lookahead - 1, n)

SampleAt(ts, line) ==
    LET clean == Clean(line.fields)
    IN  [timestamp |-> ts,
         lat |-> ToFloat(LatSearch(clean)),
         lon |-> ToFloat(LonSearch(clean)),
         alt |-> PickAlt(AbsSearch(clean), RelSearch(clean))]

\* the inner loop for the marker on line i: the sample of the first scanned
\* line that has both coordinates, if any
ScanCue(lines, i) ==
    LET hits == {j \in ScanRange(i, Len(lines)) : HasCoords(lines[j])}
    IN  IF hits = {} THEN <<>>
        ELSE LET j == CHOOSE h \in hits : \A o \in hits : h <= o
             IN  << SampleAt(lines[i].ts, lines[j]) >>

RECURSIVE ParseFrom(_, _)
ParseFrom(lines, i) ==
    IF i > Len(lines) THEN <<>>
    ELSE (IF lines[i].marker THEN ScanCue(lines, i) ELSE <<>>) \o ParseFrom(lines, i + 1)

parse_srt(lines) == ParseFrom(lines, 1)

\* ----------------------------------------------------------- create_map
\* str.split(sep) for a one-character separator
RECURSIVE SplitFrom(_, _, _, _)
SplitFrom(s, sep, p, cur) ==
    IF p > Len(s) THEN << cur >>
    ELSE IF s[p] = sep THEN << cur >> \o SplitFrom(s, sep, p + 1, <<>>)
    ELSE SplitFrom(s, sep, p + 1, Append(cur, s[p]))

Split(s, sep) == SplitFrom(s, sep, 1, <<>>)

Contains(s, c) == \E p \in 1..Len(s) : s[p] = c

\* int(s): an optional sign and at least one digit, ValueError otherwise
IntOk(s) ==
    LET sg == SignLen(s)
    IN  Len(s) > sg /\ DigitRun(s, sg + 1) = Len(s) - sg

IntVal(s) ==
    LET mag == DigitsVal(SubSeq(s, SignLen(s) + 1, Len(s)))
    IN  IF SignLen(s) = 1 /\ s[1] = "-" THEN 0 - mag ELSE mag

\* int(h) * 3600 + int(mins) * 60 + int(s) + int(ms) / 1000.0, in 1/1000 s
SecondsOfNoDivide(h, mins, s, ms) == (h * 3600 + mins * 60 + s + ms) * 1000

SecondsOf(h, mins, s, ms) == (h * 3600 + mins * 60 + s) * 1000 + ms

\* the timestamp-to-seconds conversion of the marker loop; raises is TRUE
\* where the code raises ValueError (int() of a non-number, or unpacking a
\* split of more than two parts)
TsSeconds(ts) ==
    LET ts_parts == Split(ts, ":")
    IN  IF Len(ts_parts) # 3 THEN [raises |-> FALSE, seconds |-> 0]
        ELSE LET h == ts_parts[1]
                 mins == ts_parts[2]
                 s_ms == ts_parts[3]
                 sp == Split(s_ms, ",")
                 unpack == Contains(s_ms, ",") => Len(sp) = 2
                 s == IF Contains(s_ms, ",") THEN sp[1] ELSE s_ms
                 ms == IF Contains(s_ms, ",") THEN sp[2] ELSE <<"0">>
             IN  IF unpack /\ IntOk(h) /\ IntOk(mins) /\ IntOk(s) /\ IntOk(ms)
                 THEN [raises |-> FALSE,
                       seconds |-> SecondsOf(IntVal(h), IntVal(mins), IntVal(s), IntVal(ms))]
                 ELSE [raises |-> TRUE, seconds |-> 0]

RECURSIVE SumSeq(_)
SumSeq(s) == IF s = <<>> THEN 0 ELSE s[1] + SumSeq(Tail(s))

\* all_coords: the image coordinates, then the video coordinates
AllCoordsElif(images_data, video_gps_data) ==
    IF images_data # <<>>
    THEN [i \in 1..Len(images_data) |-> <<images_data[i].gps.lat, images_data[i].gps.lon>>]
    ELSE [i \in 1..Len(video_gps_data) |-> <<video_gps_data[i].lat, video_gps_data[i].lon>>]

AllCoords(images_data, video_gps_data) ==
    [i \in 1..Len(images_data) |-> <<images_data[i].gps.lat, images_data[i].gps.lon>>]
    \o [i \in 1..Len(video_gps_data) |-> <<video_gps_data[i].lat, video_gps_data[i].lon>>]

\* center and zoom, as folium.Map is constructed with them; a coordinate of
\* the center is the fraction num / den.  divided records that the division
\* by len(all_coords) was performed.
Framing(all_coords) ==
    IF all_coords = <<>>
    THEN [lat |-> [num |-> DefaultLat, den |-> 1],
          lon |-> [num |-> DefaultLon, den |-> 1],
          zoom |-> DefaultZoom, divided |-> FALSE]
    ELSE [lat |-> [num |-> SumSeq([i \in 1..Len(all_coords) |-> all_coords[i][1]]),
                   den |-> Len(all_coords)],
          lon |-> [num |-> SumSeq([i \in 1..Len(all_coords) |-> all_coords[i][2]]),
                   den |-> Len(all_coords)],
          zoom |-> DataZoom, divided |-> TRUE]

\* the 1-based positions of the samples with i % 30 == 0
Marked(n) == {k \in 1..n : (k - 1) % MarkerEvery = 0}

RECURSIVE VideoMarkersFrom(_, _)
VideoMarkersFrom(video_gps_data, k) ==
    IF k > Len(video_gps_data) THEN <<>>
    ELSE IF k \in Marked(Len(video_gps_data))
         THEN << [index |-> k - 1,
                  location |-> <<video_gps_data[k].lat, video_gps_data[k].lon>>,
                  timestamp |-> video_gps_data[k].timestamp,
                  alt |-> video_gps_data[k].alt,
                  seconds |-> TsSeconds(video_gps_data[k].timestamp).seconds] >>
              \o VideoMarkersFrom(video_gps_data, k + 1)
         ELSE VideoMarkersFrom(video_gps_data, k + 1)

\* the marker loop raises at the first marked sample whose timestamp does
MarkersRaise(video_gps_data) ==
    \E k \in Marked(Len(video_gps_data)) : TsSeconds(video_gps_data[k].timestamp).raises

\* the returned document, or the exception that left create_map
create_map(images_data, video_gps_data) ==
    LET frame == Framing(AllCoords(images_data, video_gps_data))
        img_coords == [i \in 1..Len(images_data) |->
                          <<images_data[i].gps.lat, images_data[i].gps.lon>>]
    IN  IF MarkersRaise(video_gps_data)
        THEN [error |-> "ValueError", frame |-> frame,
              img_markers |-> <<>>, img_paths |-> <<>>,
              video_paths |-> <<>>, video_markers |-> <<>>]
        ELSE [error |-> "", frame |-> frame,
              img_markers |-> [i \in 1..Len(images_data) |->
                                  [location |-> img_coords[i],
                                   filename |-> images_data[i].filename]],
              img_paths |-> IF Len(img_coords) > 1 THEN << img_coords >> ELSE <<>>,
              video_paths |-> IF video_gps_data # <<>>
                              THEN << [i \in 1..Len(video_gps_data) |->
                                         <<video_gps_data[i].lat, video_gps_data[i].lon>>] >>
                              ELSE <<>>,
              video_markers |-> VideoMarkersFrom(video_gps_data, 1)]

NoMap == [error |-> "", frame |-> <<>>, img_markers |-> <<>>, img_paths |-> <<>>,
          video_paths |-> <<>>, video_markers |-> <<>>]

\* ------------------------------------------------ extract_gps_from_image
Ratio(n, d) == [num |-> n, den |-> d]

\* float(r.num) / float(r.den) times mult, for a denominator in 1..MaxDen
RatioTimes(r, mult) == (r.num * mult) \div r.den

\* dms_to_decimal: val is the result, negzero says that it is -0.0 (the
\* negation of a zero sum)
dms_to_decimal_south_only(dms, ref) ==
    LET decimal_ == RatioTimes(dms[1], Unit) + RatioTimes(dms[2], Unit \div 60)
                        + RatioTimes(dms[3], Unit \div 3600)
    IN  IF ref \in {"S"}
        THEN [val |-> 0 - decimal_, negzero |-> decimal_ = 0]
        ELSE [val |-> decimal_, negzero |-> FALSE]

dms_to_decimal(dms, ref) ==
    LET degrees == RatioTimes(dms[1], Unit)
        minutes == RatioTimes(dms[2], Unit)
        seconds == RatioTimes(dms[3], Unit)
        decimal_ == degrees + (minutes \div 60) + (seconds \div 3600)
    IN  IF ref \in {"S", "W"}
        THEN [val |-> 0 - decimal_, negzero |-> decimal_ = 0]
        ELSE [val |-> decimal_, negzero |-> FALSE]

\* The metadata of an image file: corrupt when exifread cannot process it;
\* a tag is << >> when absent and << value >> when present.
Exif(lat, lat_ref, lon, lon_ref, alt) ==
    [corrupt |-> FALSE, lat |-> lat, lat_ref |-> lat_ref,
     lon |-> lon, lon_ref |-> lon_ref, alt |-> alt]

\* dms_to_decimal raises: a triple with fewer than three values, or a zero
\* denominator
DmsRaises(dms) == Len(dms) < 3 \/ \E k \in 1..3 : dms[k].den = 0

\* the four tags all([...]) tests
TagsPresent(exif) ==
    exif.lat # <<>> /\ exif.lat_ref # <<>> /\ exif.lon # <<>> /\ exif.lon_ref # <<>>

\* << >> for None, << gps >> for the dictionary
extract_gps_from_image(exif) ==
    IF exif.corrupt THEN <<>>
    ELSE IF ~TagsPresent(exif) THEN <<>>
    ELSE IF DmsRaises(exif.lat[1]) \/ DmsRaises(exif.lon[1]) THEN <<>>
    ELSE << [lat |-> dms_to_decimal(exif.lat[1], exif.lat_ref[1]).val,
             lon |-> dms_to_decimal(exif.lon[1], exif.lon_ref[1]).val,
             alt |-> IF exif.alt # <<>> /\ exif.alt[1].den # 0
                     THEN RatioTimes(exif.alt[1], Unit) ELSE 0] >>

\* ------------------------------------------------------- idle components
IdleSrt == srt_lines = <<>> /\ gps_data = <<>>
IdleDms == dms_in = <<>> /\ ref_in = "" /\ decimal = [val |-> 0, negzero |-> FALSE]
IdleMap == images_arg = <<>> /\ video_arg = <<>>
IdleApp ==
    /\ root_files = <<>>
    /\ img_dir = [exists |-> TRUE, files |-> <<>>]
    /\ current_map_data = [images |-> <<>>, video_gps |-> <<>>]
    /\ last_req = "none"
    /\ last_scan = <<>>

\* ------------------------------------- telemetry files: parse, then map
\* a file of at most MaxLines lines of which at most MaxBusy are marker or
\* coordinate lines
InitSrt ==
    /\ pc = "start"
    /\ \E L \in 0..MaxLines, cv \in 1..Len(CoordLines), bad \in BOOLEAN,
          filler \in {"blank", "half"} :
         \E P \in SUBSET (1..L) :
            /\ Cardinality(P) <= MaxBusy
            /\ cv = 1 \/ ~bad
            /\ \E kind \in [P -> BusyKinds] :
                 srt_lines = [i \in 1..L |->
                                 IF i \in P THEN LineOf(kind[i], i, cv, bad)
                                 ELSE FillerLine(i, filler)]
    /\ gps_data = <<>>
    /\ map_html = NoMap
    /\ IdleDms /\ IdleMap /\ IdleApp

ParseSrt ==
    /\ pc = "start"
    /\ gps_data' = parse_srt(srt_lines)
    /\ pc' = "parsed"
    /\ UNCHANGED <<srt_lines, map_html, dms_in, ref_in, decimal, images_arg, video_arg,
                   root_files, img_dir, current_map_data, last_req, last_scan>>

\* the map of the parsed track alone
MapTrack ==
    /\ pc = "parsed"
    /\ map_html' = create_map(<<>>, gps_data)
    /\ pc' = "mapped"
    /\ UNCHANGED <<srt_lines, gps_data, dms_in, ref_in, decimal, images_arg, video_arg,
                   root_files, img_dir, current_map_data, last_req, last_scan>>

NextSrt == ParseSrt \/ MapTrack

SpecSrt == InitSrt /\ [][NextSrt]_vars

\* --------------------------------------------------- claims on parse_srt
Markers(lines) == {i \in 1..Len(lines) : lines[i].marker}

\* the markers up to line i that have a coordinate line among the w lines
\* after them
Emitting(lines, i, w) ==
    {m \in Markers(lines) : m <= i /\ \E k \in 1..w : m + k <= Len(lines)
                                                      /\ HasCoords(lines[m + k])}

IsDecimal(t) == AltMatch(t) = t

\* [latitude: A] [longitude: B] [rel_alt: C]
IsFormLine(line) ==
    /\ ~line.marker
    /\ Len(line.fields) = 3
    /\ \A p \in 1..3 : ~line.fields[p].intag /\ IsDecimal(line.fields[p].text)
    /\ line.fields[1].label = "latitude"
    /\ line.fields[2].label = "longitude"
    /\ line.fields[3].label = "rel_alt"

\* marker i is followed at position k by a line of the form, with no
\* coordinates on the lines in between
FormAt(lines, i, k) ==
    /\ i \in Markers(lines)
    /\ i + k <= Len(lines)
    /\ IsFormLine(lines[i + k])
    /\ \A m \in 1..(k - 1) : ~HasCoords(lines[i + m])

WindowClaim(w) ==
    pc # "start" =>
        \A i \in 1..Len(srt_lines) : \A k \in 1..w :
            FormAt(srt_lines, i, k) =>
                LET r == Cardinality(Emitting(srt_lines, i, w))
                    f == srt_lines[i + k].fields
                IN  /\ Len(gps_data) = Cardinality(Emitting(srt_lines, Len(srt_lines), w))
                    /\ gps_data[r] = [timestamp |-> srt_lines[i].ts,
                                      lat |-> ToFloat(f[1].text),
                                      lon |-> ToFloat(f[2].text),
                                      alt |-> ToFloat(f[3].text)]

\* C1 as stated: a marker followed at any of the positions 1 through 8 by a
\* line [latitude: A] [longitude: B] [rel_alt: C], with no coordinates in
\* between, yields exactly one sample, with the marker's timestamp and A, B, C.
C1_AsStated == WindowClaim(8)

\* C1 amended: the same for the positions 1 through 7 after the marker.
C1_Window7 == WindowClaim(7)

C1_Witness ==
    /\ pc = "parsed"
    /\ \E i \in 1..Len(srt_lines) : FormAt(srt_lines, i, 7) /\ Len(gps_data) = 1

\* the lines of the cue of marker i: after it, before the next marker line
Cue(lines, i) ==
    {j \in (i + 1)..Len(lines) : \A k \in (i + 1)..j : ~lines[k].marker}

RECURSIVE CueTimestamps(_, _)
CueTimestamps(lines, i) ==
    IF i > Len(lines) THEN <<>>
    ELSE (IF lines[i].marker /\ \E j \in Cue(lines, i) : HasCoords(lines[j])
          THEN << lines[i].ts >> ELSE <<>>) \o CueTimestamps(lines, i + 1)

\* C2: the track has one sample per cue that holds coordinates on a line of
\* its own, carrying that cue's timestamp; a cue without coordinates of its
\* own contributes no sample.
C2_OnePerCue ==
    pc # "start" =>
        [n \in 1..Len(gps_data) |-> gps_data[n].timestamp] = CueTimestamps(srt_lines, 1)

\* the positions of the usable fields of a cleaned line
AltFields(line, IsLabel(_)) ==
    {p \in 1..Len(line.fields) :
        /\ ~line.fields[p].intag
        /\ IsLabel(line.fields[p].label)
        /\ AltMatch(line.fields[p].text) # NoMatch}

FirstOf(S) == CHOOSE p \in S : \A q \in S : p <= q

\* the line on which the scan of marker i finds the pair (0: none)
FoundLine(lines, i) ==
    LET hits == {j \in (i + 1)..Len(lines) : j <= i + 7 /\ HasCoords(lines[j])}
    IN  IF hits = {} THEN 0 ELSE FirstOf(hits)

AltOfLine(line) ==
    IF AltFields(line, IsAbs) # {}
    THEN ToFloat(AltMatch(line.fields[FirstOf(AltFields(line, IsAbs))].text))
    ELSE IF AltFields(line, IsRel) # {}
    THEN ToFloat(AltMatch(line.fields[FirstOf(AltFields(line, IsRel))].text))
    ELSE 0

\* C4: the altitude of a sample is the absolute-altitude value of the line
\* the pair was found on when the line has one (wherever it stands), else
\* its relative-altitude value, else 0.
C4_AbsoluteFirst ==
    pc # "start" =>
        \A i \in Markers(srt_lines) :
            FoundLine(srt_lines, i) # 0 =>
                LET r == Cardinality({m \in Markers(srt_lines) :
                                         m <= i /\ FoundLine(srt_lines, m) # 0})
                IN  /\ r <= Len(gps_data)
                    /\ gps_data[r].alt = AltOfLine(srt_lines[FoundLine(srt_lines, i)])

\* a sample taken from a line with both altitude fields, relative first
C4_Witness ==
    /\ pc = "parsed"
    /\ \E i \in Markers(srt_lines) :
         /\ FoundLine(srt_lines, i) # 0
         /\ LET line == srt_lines[FoundLine(srt_lines, i)]
            IN  /\ AltFields(line, IsAbs) # {} /\ AltFields(line, IsRel) # {}
                /\ FirstOf(AltFields(line, IsRel)) < FirstOf(AltFields(line, IsAbs))
    /\ \E n \in 1..Len(gps_data) : gps_data[n].alt = ToFloat(N25)

\* C10: whatever the telemetry file holds, parsing it and converting the
\* timestamps of its samples for the map raises no error.
C10_NeverRaises == pc = "mapped" => map_html.error = ""

\* ------------------------------------------------ EXIF triples: convert
Nums == {-1, 0, 1, 23, 39, 43, 79}
Refs == {"N", "S", "E", "W"}

InitDms ==
    /\ pc = "start"
    /\ dms_in \in [1..3 -> {Ratio(n, d) : n \in Nums, d \in 1..MaxDen}]
    /\ ref_in \in Refs
    /\ decimal = [val |-> 0, negzero |-> FALSE]
    /\ map_html = NoMap
    /\ IdleSrt /\ IdleMap /\ IdleApp

Convert ==
    /\ pc = "start"
    /\ decimal' = dms_to_decimal(dms_in, ref_in)
    /\ pc' = "converted"
    /\ UNCHANGED <<srt_lines, gps_data, map_html, dms_in, ref_in, images_arg, video_arg,
                   root_files, img_dir, current_map_data, last_req, last_scan>>

NextDms == Convert

SpecDms == InitDms /\ [][NextDms]_vars

Abs(x) == IF x < 0 THEN 0 - x ELSE x

\* degrees + minutes/60 + seconds/3600 is DmsNum(dms) / (3600 * DmsDen(dms))
DmsNum(dms) ==
    3600 * dms[1].num * dms[2].den * dms[3].den
    + 60 * dms[2].num * dms[1].den * dms[3].den
    + dms[3].num * dms[1].den * dms[2].den

DmsDen(dms) == dms[1].den * dms[2].den * dms[3].den

\* the float f has the magnitude of the fraction num / (3600 * den)
HasMagnitude(f, num, den) == Abs(f.val) * den = Abs(num) * (Unit \div 3600)

SignNegative(f) == f.val < 0 \/ f.negzero

\* C3 as stated: for every triple of rationals and every reference the
\* magnitude of the result is degrees + minutes/60 + seconds/3600 and its
\* sign is negative exactly for S and W.
C3_AsStated ==
    pc = "converted" =>
        /\ Abs(decimal.val) * DmsDen(dms_in) = DmsNum(dms_in) * (Unit \div 3600)
        /\ SignNegative(decimal) <=> ref_in \in {"S", "W"}

\* C3 amended: the same for every triple of non-negative rationals (for an
\* all-zero triple the result is zero, -0.0 for S and W).
C3_NonNegativeTriples ==
    pc = "converted" /\ (\A k \in 1..3 : dms_in[k].num >= 0) =>
        /\ HasMagnitude(decimal, DmsNum(dms_in), DmsDen(dms_in))
        /\ SignNegative(decimal) <=> ref_in \in {"S", "W"}
        /\ DmsNum(dms_in) > 0 => (decimal.val < 0 <=> ref_in \in {"S", "W"})

\* 79 deg 23' 0" W is -79.3833...
C3_Witness ==
    /\ pc = "converted"
    /\ dms_in = << Ratio(79, 1), Ratio(23, 1), Ratio(0, 1) >>
    /\ ref_in = "W"
    /\ decimal.val * 60 = 0 - (79 * 60 + 23) * Unit

\* ------------------------------------------------- map inputs: create_map
ImgNames == << "a.jpg", "b.PNG", "c.jpeg", "d.png" >>

Present(x) == << x >>
Absent == <<>>

\* 43 deg 39' 0" N, 79 deg 23' 0" W, 120.5 m
ExifToronto ==
    Exif(Present(<< Ratio(43, 1), Ratio(39, 1), Ratio(0, 1) >>), Present("N"),
         Present(<< Ratio(79, 1), Ratio(23, 1), Ratio(0, 1) >>), Present("W"),
         Present(Ratio(241, 2)))

\* 1 deg 0' 39/2" S, 23 deg 1/2' 0" E, no altitude
ExifSouth ==
    Exif(Present(<< Ratio(1, 1), Ratio(0, 1), Ratio(39, 2) >>), Present("S"),
         Present(<< Ratio(23, 1), Ratio(1, 2), Ratio(0, 1) >>), Present("E"),
         Absent)

GoodExifs == << ExifToronto, ExifSouth >>

\* m image records, as a scan yields them
ImagesOf(m, seed) ==
    [i \in 1..m |->
        [filename |-> ImgNames[i],
         gps |-> extract_gps_from_image(GoodExifs[((i + seed) % Len(GoodExifs)) + 1])[1]]]

\* a track of n samples, one every step ms from start; with tv > 1 the
\* sample at position badAt carries the malformed first token TsKinds[tv]
\* of its marker line
TrackOf(n, start, step, tv, badAt) ==
    [k \in 1..n |->
        [timestamp |-> IF tv > 1 /\ k = badAt THEN TsKinds[tv]
                       ELSE FormatTs(start + (k - 1) * step),
         lat |-> DefaultLat + k * (Unit \div 100),
         lon |-> DefaultLon - 2 * k * (Unit \div 100),
         alt |-> ((k * 7) % 50) * (Unit \div 10)]]

Starts == {0, 12345, 3600000}
Steps == {40, 61007}

InitMap ==
    /\ pc = "start"
    /\ \E m \in 0..MaxImages, seed \in 0..1 : images_arg = ImagesOf(m, seed)
    /\ \E n \in 0..MaxTrack, start \in Starts, step \in Steps,
          tv \in 1..Len(TsKinds), badAt \in {1, 2, MarkerEvery + 1} :
         /\ tv = 1 => badAt = 1
         /\ video_arg = TrackOf(n, start, step, tv, badAt)
    /\ map_html = NoMap
    /\ IdleSrt /\ IdleDms /\ IdleApp

CreateMap ==
    /\ pc = "start"
    /\ map_html' = create_map(images_arg, video_arg)
    /\ pc' = "mapped"
    /\ UNCHANGED <<srt_lines, gps_data, dms_in, ref_in, decimal, images_arg, video_arg,
                   root_files, img_dir, current_map_data, last_req, last_scan>>

NextMap == CreateMap

SpecMap == InitMap /\ [][NextMap]_vars

\* the sum of the values of a function over a finite set of its domain
RECURSIVE Total(_, _)
Total(f, S) ==
    IF S = {} THEN 0
    ELSE LET x == CHOOSE y \in S : TRUE IN f[x] + Total(f, S \ {x})

\* C5: without image records and video samples the center is the default
\* (43.65, -79.38) at zoom 12 and nothing is divided; otherwise the center
\* is the mean latitude and mean longitude over all image and video samples
\* together, at zoom 15.
C5_Framing ==
    pc = "mapped" =>
        LET n == Len(images_arg) + Len(video_arg)
            I == 1..Len(images_arg)
            V == 1..Len(video_arg)
            sumLat == Total([i \in I |-> images_arg[i].gps.lat], I)
                      + Total([i \in V |-> video_arg[i].lat], V)
            sumLon == Total([i \in I |-> images_arg[i].gps.lon], I)
                      + Total([i \in V |-> video_arg[i].lon], V)
            fr == map_html.frame
        IN  IF n = 0
            THEN /\ fr.lat.num * 100 = 4365 * Unit * fr.lat.den
                 /\ fr.lon.num * 100 = (0 - 7938) * Unit * fr.lon.den
                 /\ fr.zoom = 12
                 /\ ~fr.divided
            ELSE /\ fr.lat.den = n /\ fr.lat.num = sumLat
                 /\ fr.lon.den = n /\ fr.lon.num = sumLon
                 /\ fr.zoom = 15

\* two image records and more video samples, framed on their common mean
C5_Witness ==
    /\ pc = "mapped"
    /\ Len(images_arg) = 2
    /\ Len(video_arg) = 3
    /\ map_html.frame.zoom = 15
    /\ map_html.frame.lat.den = 5

\* HH:MM:SS,mmm
IsHMS(ts) ==
    /\ Len(ts) = 12
    /\ ts[3] = ":" /\ ts[6] = ":" /\ ts[9] = ","
    /\ \A p \in {1, 2, 4, 5, 7, 8, 10, 11, 12} : IsDigit(ts[p])

\* hours*3600 + minutes*60 + seconds + milliseconds/1000, in 1/1000 s
HMSValue(ts) ==
    LET V(p) == DigitVal(ts[p])
    IN  (10 * V(1) + V(2)) * 3600000 + (10 * V(4) + V(5)) * 60000
        + (10 * V(7) + V(8)) * 1000 + 100 * V(10) + 10 * V(11) + V(12)

\* C6: the seconds value of a video marker whose timestamp has the form
\* HH:MM:SS,mmm is hours*3600 + minutes*60 + seconds + milliseconds/1000.
C6_Seconds ==
    pc = "mapped" =>
        \A q \in 1..Len(map_html.video_markers) :
            IsHMS(map_html.video_markers[q].timestamp) =>
                map_html.video_markers[q].seconds
                    = HMSValue(map_html.video_markers[q].timestamp)

\* "00:00:12,345" gives 12.345 and, on another marker, an hour is passed
C6_Witness ==
    /\ pc = "mapped"
    /\ Len(map_html.video_markers) = 3
    /\ map_html.video_markers[1].timestamp = FormatTs(12345)
    /\ map_html.video_markers[1].seconds = 12345
    /\ map_html.video_markers[3].timestamp = FormatTs(3600000 + 72765)
    /\ map_html.video_markers[3].seconds = 3600000 + 72765

CeilDiv(a, b) == (a + b - 1) \div b

\* C7: a non-empty track of n samples gets one path through all n samples
\* in order and a marker exactly at the samples 0, 30, 60, ... (ceil(n/30)
\* markers), each with its sample's coordinate, timestamp and altitude; an
\* empty track gets no path and no markers.
C7_VideoLayer ==
    pc = "mapped" =>
        IF video_arg = <<>>
        THEN map_html.video_paths = <<>> /\ map_html.video_markers = <<>>
        ELSE /\ map_html.video_paths
                  = << [i \in 1..Len(video_arg) |-> <<video_arg[i].lat, video_arg[i].lon>>] >>
             /\ Len(map_html.video_markers) = CeilDiv(Len(video_arg), 30)
             /\ \A q \in 1..Len(map_html.video_markers) :
                  LET mk == map_html.video_markers[q]
                      pt == video_arg[30 * (q - 1) + 1]
                  IN  /\ mk.index = 30 * (q - 1)
                      /\ mk.location = <<pt.lat, pt.lon>>
                      /\ mk.timestamp = pt.timestamp
                      /\ mk.alt = pt.alt

\* ------------------------------------------------------ the upload folder
\* A directory is a function from the names of its files to their contents.
EmptyDir == [name \in {} |-> <<>>]

IsImageName(name) == name \in {"a.jpg", "b.PNG", "c.jpeg", "d.png"}
IsVideoName(name) == name \in {"v.MP4", "w.mov", "x.avi"}
IsSrtName(name) == name \in {"drone.srt", "B.SRT"}

Put(dir, name, content) ==
    [n \in DOMAIN dir \cup {name} |-> IF n = name THEN content ELSE dir[n]]

Restrict(dir, names) == [n \in names |-> dir[n]]

\* the orders os.listdir can list a set of names in
Listings(names) ==
    {o \in [1..Cardinality(names) -> names] :
        \A p, q \in 1..Cardinality(names) : p # q => o[p] # o[q]}

\* the loop over image_files: a record for each file that yields GPS
RECURSIVE ScanImagesAbort(_, _)
ScanImagesAbort(image_files, files) ==
    IF image_files = <<>> THEN <<>>
    ELSE LET fname == Head(image_files)
             gps == extract_gps_from_image(files[fname])
         IN  IF gps = <<>> THEN <<>>
             ELSE << [filename |-> fname, gps |-> gps[1]] >>
                  \o ScanImagesAbort(Tail(image_files), files)

RECURSIVE ScanImages(_, _)
ScanImages(image_files, files) ==
    IF image_files = <<>> THEN <<>>
    ELSE LET fname == Head(image_files)
             gps == extract_gps_from_image(files[fname])
         IN  (IF gps # <<>> THEN << [filename |-> fname, gps |-> gps[1]] >> ELSE <<>>)
             \o ScanImages(Tail(image_files), files)

\* the last name of a listing that is one of matching, "" without one
RECURSIVE LastOf(_, _)
LastOf(listing, matching) ==
    IF listing = <<>> THEN ""
    ELSE IF listing[Len(listing)] \in matching THEN listing[Len(listing)]
    ELSE LastOf(SubSeq(listing, 1, Len(listing) - 1), matching)

\* current_map_data = {'images': images_data, 'video_gps': video_gps_data}
SnapshotImagesOnly(images_data, video_gps_data) ==
    [images |-> images_data, video_gps |-> <<>>]

Snapshot(images_data, video_gps_data) ==
    [images |-> images_data, video_gps |-> video_gps_data]

\* index(): scan the images directory and the root, store the snapshot
Index ==
    /\ pc = "serving"
    /\ \E listing \in Listings(DOMAIN root_files) :
       \E image_files \in Listings({n \in DOMAIN img_dir.files : IsImageName(n)}) :
         LET images_data == IF img_dir.exists
                            THEN ScanImages(image_files, img_dir.files) ELSE <<>>
             srt == LastOf(listing, {n \in DOMAIN root_files : IsSrtName(n)})
             video_gps_data == IF srt = "" THEN <<>> ELSE parse_srt(root_files[srt])
         IN  /\ current_map_data' = Snapshot(images_data, video_gps_data)
             /\ last_scan' = [image_files |-> image_files, srt_file |-> srt,
                              video_file |->
                                  LastOf(listing, {n \in DOMAIN root_files : IsVideoName(n)})]
    /\ last_req' = "index"
    /\ map_html' = NoMap
    /\ UNCHANGED <<pc, srt_lines, gps_data, dms_in, ref_in, decimal, images_arg, video_arg,
                   root_files, img_dir>>

\* map_view(): the map of the snapshot
MapView ==
    /\ pc = "serving"
    /\ map_html' = create_map(current_map_data.images, current_map_data.video_gps)
    /\ last_req' = "map"
    /\ last_scan' = <<>>
    /\ UNCHANGED <<pc, srt_lines, gps_data, dms_in, ref_in, decimal, images_arg, video_arg,
                   root_files, img_dir, current_map_data>>

\* upload(): save the files of the batch in order; file.save raises when an
\* image arrives while the images directory is missing
RECURSIVE SaveFrom(_, _, _, _)
SaveFrom(batch, k, root, img) ==
    IF k > Len(batch) THEN [root |-> root, img |-> img, failed |-> FALSE]
    ELSE LET fname == batch[k].filename
         IN  IF fname = "" THEN SaveFrom(batch, k + 1, root, img)
             ELSE IF IsImageName(fname)
             THEN IF img.exists
                  THEN SaveFrom(batch, k + 1, root,
                                [exists |-> TRUE,
                                 files |-> Put(img.files, fname, batch[k].content)])
                  ELSE [root |-> root, img |-> img, failed |-> TRUE]
             ELSE SaveFrom(batch, k + 1, Put(root, fname, batch[k].content), img)

\* the images directory after clear_data
ClearedImagesKept(img) == [exists |-> TRUE, files |-> img.files]

ClearedImages(img) == [exists |-> TRUE, files |-> EmptyDir]

\* clear_data() without a filesystem error: everything under the root is
\* removed and the images directory is made again
ClearData ==
    /\ pc = "serving"
    /\ root_files' = EmptyDir
    /\ img_dir' = ClearedImages(img_dir)
    /\ last_req' = "clear"
    /\ last_scan' = <<>>
    /\ map_html' = NoMap
    /\ UNCHANGED <<pc, srt_lines, gps_data, dms_in, ref_in, decimal, images_arg, video_arg,
                   current_map_data>>

\* clear_data() stopped by a filesystem error: the items listed before the
\* failing one are gone, the failing one and the later ones remain (a
\* failing rmtree may have removed part of the images), nothing is made again
ClearDataFails ==
    /\ pc = "serving"
    /\ \E kept \in SUBSET DOMAIN root_files :
         /\ root_files' = Restrict(root_files, kept)
         /\ \/ /\ img_dir.exists
               /\ \E left \in SUBSET DOMAIN img_dir.files :
                    img_dir' = [exists |-> TRUE, files |-> Restrict(img_dir.files, left)]
            \/ /\ kept # {}
               /\ img_dir' = [exists |-> FALSE, files |-> EmptyDir]
    /\ last_req' = "clear_failed"
    /\ last_scan' = <<>>
    /\ map_html' = NoMap
    /\ UNCHANGED <<pc, srt_lines, gps_data, dms_in, ref_in, decimal, images_arg, video_arg,
                   current_map_data>>

\* ------------------------------------------------- requests in sequence
\* two telemetry files: one cue; two cues, the second without altitude
SrtA == << LineOf("marker", 1, 1, FALSE), LineOf("coord", 2, 1, FALSE) >>
SrtB == << LineOf("marker", 1, 4, FALSE), LineOf("coord", 2, 2, FALSE), Blank,
           LineOf("marker", 4, 4, FALSE), LineOf("coord", 5, 4, FALSE) >>

\* latitude reference missing
ExifNoRef ==
    Exif(Present(<< Ratio(43, 1), Ratio(39, 1), Ratio(0, 1) >>), Absent,
         Present(<< Ratio(79, 1), Ratio(23, 1), Ratio(0, 1) >>), Present("W"), Absent)

ExifCorrupt == [corrupt |-> TRUE, lat |-> Absent, lat_ref |-> Absent,
                lon |-> Absent, lon_ref |-> Absent, alt |-> Absent]

File(name, content) == [filename |-> name, content |-> content]

Uploadables ==
    { File("drone.srt", SrtA), File("drone.srt", SrtB), File("B.SRT", SrtB),
      File("v.MP4", <<>>), File("", <<>>),
      File("a.jpg", ExifToronto), File("a.jpg", ExifNoRef),
      File("b.PNG", ExifSouth), File("b.PNG", ExifCorrupt) }

Upload ==
    /\ pc = "serving"
    /\ \E n \in 0..MaxBatch : \E batch \in [1..n -> Uploadables] :
         LET saved == SaveFrom(batch, 1, root_files, img_dir)
         IN  /\ root_files' = saved.root
             /\ img_dir' = saved.img
             /\ last_req' = IF saved.failed THEN "upload_failed" ELSE "upload"
    /\ last_scan' = <<>>
    /\ map_html' = NoMap
    /\ UNCHANGED <<pc, srt_lines, gps_data, dms_in, ref_in, decimal, images_arg, video_arg,
                   current_map_data>>

InitApp ==
    /\ pc = "serving"
    /\ root_files = EmptyDir
    /\ img_dir = [exists |-> TRUE, files |-> EmptyDir]
    /\ current_map_data = [images |-> <<>>, video_gps |-> <<>>]
    /\ last_req = "none"
    /\ last_scan = <<>>
    /\ map_html = NoMap
    /\ IdleSrt /\ IdleDms /\ IdleMap

NextApp == Index \/ MapView \/ Upload \/ ClearData \/ ClearDataFails

SpecApp == InitApp /\ [][NextApp]_vars

\* C8: after a successful clear_data the upload root holds nothing but an
\* empty images directory, and the page load that follows finds no
\* telemetry file, no video file and no image, so that its video track and
\* image records are empty.
C8_ClearThenScan ==
    /\ [](last_req = "clear" =>
            /\ DOMAIN root_files = {}
            /\ img_dir.exists /\ DOMAIN img_dir.files = {})
    /\ [][(last_req = "clear" /\ last_req' = "index") =>
            /\ last_scan'.image_files = <<>>
            /\ last_scan'.srt_file = "" /\ last_scan'.video_file = ""
            /\ current_map_data'.images = <<>>
            /\ current_map_data'.video_gps = <<>>]_vars

\* drone.srt and an image were uploaded and scanned, then all was cleared
C8_Witness ==
    /\ last_req = "clear"
    /\ DOMAIN root_files = {}
    /\ current_map_data.video_gps = parse_srt(SrtA)
    /\ current_map_data.images # <<>>

\* C11: the snapshot is empty before the first page load; a page load sets
\* it to the image records and the video track it computed from the upload
\* folder, and no other request (map, upload, clear_data, failed or not)
\* changes it; a map request renders the map of the snapshot as it stands,
\* so that after an upload or a clear it still renders the earlier scan.
C11_MapOfLastPageLoad ==
    /\ current_map_data = [images |-> <<>>, video_gps |-> <<>>]
    /\ [][IF last_req' = "index"
          THEN /\ current_map_data'.images
                    = IF img_dir.exists
                      THEN ScanImages(last_scan'.image_files, img_dir.files)
                      ELSE <<>>
               /\ current_map_data'.video_gps
                    = IF last_scan'.srt_file = "" THEN <<>>
                      ELSE parse_srt(root_files[last_scan'.srt_file])
               /\ DOMAIN current_map_data' = {"images", "video_gps"}
          ELSE current_map_data' = current_map_data]_vars
    /\ [][last_req' = "map" =>
            map_html' = create_map(current_map_data.images,
                                   current_map_data.video_gps)]_vars

\* drone.srt and an image were uploaded and scanned, all was cleared, and
\* the map requested after the clear draws the track and the image
C11_Witness ==
    /\ last_req = "map"
    /\ DOMAIN root_files = {}
    /\ img_dir.exists /\ DOMAIN img_dir.files = {}
    /\ map_html.error = ""
    /\ map_html.video_paths # <<>>
    /\ map_html.img_markers # <<>>

\* ------------------------------------------- page load over a directory
DmsToronto == << Ratio(43, 1), Ratio(39, 1), Ratio(0, 1) >>
DmsWest == << Ratio(79, 1), Ratio(23, 1), Ratio(0, 1) >>
GpsTags == {"lat", "lat_ref", "lon", "lon_ref"}

\* image metadata with any subset of the four tags, with or without an
\* altitude (or one with a zero denominator); metadata whose triples make
\* the conversion raise; corrupt metadata
ScanExifs ==
    { Exif(IF "lat" \in tags THEN Present(DmsToronto) ELSE Absent,
           IF "lat_ref" \in tags THEN Present("N") ELSE Absent,
           IF "lon" \in tags THEN Present(DmsWest) ELSE Absent,
           IF "lon_ref" \in tags THEN Present("W") ELSE Absent,
           alt) :
        tags \in SUBSET GpsTags, alt \in {Absent, Present(Ratio(241, 2)), Present(Ratio(5, 0))} }
    \cup { Exif(Present(<< Ratio(43, 0), Ratio(39, 1), Ratio(0, 1) >>), Present("S"),
                Present(DmsWest), Present("E"), Absent),
           Exif(Present(DmsToronto), Present("N"),
                Present(<< Ratio(79, 1), Ratio(23, 1) >>), Present("W"), Absent),
           ExifSouth, ExifCorrupt }

\* an upload folder as a page load may find it
InitScan ==
    /\ pc = "serving"
    /\ root_files = EmptyDir
    /\ \/ img_dir = [exists |-> FALSE, files |-> EmptyDir]
       \/ \E names \in SUBSET {"a.jpg", "b.PNG", "notes.txt"} :
          \E files \in [names -> ScanExifs] :
             /\ "notes.txt" \in names => files["notes.txt"] = ExifCorrupt
             /\ img_dir = [exists |-> TRUE, files |-> files]
    /\ current_map_data = [images |-> <<>>, video_gps |-> <<>>]
    /\ last_req = "none"
    /\ last_scan = <<>>
    /\ map_html = NoMap
    /\ IdleSrt /\ IdleDms /\ IdleMap

NextScan == Index

SpecScan == InitScan /\ [][NextScan]_vars

\* the metadata can be processed, holds the four tags, and its triples have
\* three values with non-zero denominators
Succeeds(exif) ==
    /\ ~exif.corrupt
    /\ exif.lat # <<>> /\ exif.lat_ref # <<>>
    /\ exif.lon # <<>> /\ exif.lon_ref # <<>>
    /\ \A dms \in {exif.lat[1], exif.lon[1]} :
         Len(dms) >= 3 /\ \A k \in 1..3 : dms[k].den # 0

\* C9: an image whose metadata is corrupt or lacks one of the four tags
\* yields no GPS and is left out alone: the image records of a page load
\* are the image files whose extraction succeeded, in listing order.
C9_FailureIsolated ==
    last_req = "index" =>
        LET recs == current_map_data.images
            order == last_scan.image_files
            files == img_dir.files
            Good(p) == Succeeds(files[order[p]])
            Rank(p) == Cardinality({o \in 1..p : Good(o)})
        IN  /\ DOMAIN order = 1..Cardinality({n \in DOMAIN files : IsImageName(n)})
            /\ Len(recs) = Rank(Len(order))
            /\ \A p \in 1..Len(order) :
                 /\ Good(p) => recs[Rank(p)].filename = order[p]
                 /\ ~Good(p) => extract_gps_from_image(files[order[p]]) = <<>>
                 /\ ~Good(p) => \A q \in 1..Len(recs) : recs[q].filename # order[p]

\* an image without a longitude tag listed before an image with GPS
C9_Witness ==
    /\ last_req = "index"
    /\ Len(last_scan.image_files) = 2
    /\ LET first == img_dir.files[last_scan.image_files[1]]
       IN  ~first.corrupt /\ first.lon = <<>> /\ first.lat # <<>>
    /\ Len(current_map_data.images) = 1
    /\ current_map_data.images[1].filename = last_scan.image_files[2]

====
